---- MODULE Spec2Model ----
(***************************************************************************)
(* Verification model of the rubiks-solver repository.                     *)
(*                                                                         *)
(*   model/color.rs       the six face identities                          *)
(*   model/rotation.rs    Direction, Rotation, Rotation::random            *)
(*   model/block.rs       BlockFace, Block (Edge / Corner)                 *)
(*   model/rubiks_cube.rs ADJACENT_COLORS, get_color_rotations, RubiksCube *)
(*   model/bit_cube.rs    Face (packed u32), BitCube, Move                 *)
(*                                                                         *)
(* Arrays of the source are functions over 0..n-1 so that every index of   *)
(* the model is the index of the source.  Every u32 of the source is       *)
(* modelled exactly: see U32 below.                                        *)
(***************************************************************************)
EXTENDS Integers, Sequences, FiniteSets, TLC

(* ------------------------------------------------------------------ *)
(* Bounds of the model                                                  *)
(* ------------------------------------------------------------------ *)

\* longest scramble explored (number of moves n given to scramble)
MaxMoves == 3

\* longest scramble RubiksCube::solve is run on
MaxSolveMoves == 2

\* largest cell value handed to the entry points of Face and BitCube
MaxCellInput == 8

\* number of calls made on Face and BitCube in a run of FaceSpec
MaxCalls == 2

\* largest cell index handed to Face::get and Face::set
MaxIndex == 11

\* largest face index handed to BitCube::turn
MaxFaceIndex == 6

\* largest cell value of the strips handed to Face::set_edge
MaxStripCell == 3

\* longest scramble the step-by-step run of RubiksCube::solve is started on
MaxSearchMoves == 1

(* ------------------------------------------------------------------ *)
(* Helpers: arrays and u32 arithmetic                                   *)
(* ------------------------------------------------------------------ *)

\* a Rust array literal: the tuple s re-indexed from 0
Arr(s) == [i \in 0..(Len(s) - 1) |-> s[i + 1]]

\* A u32 is held as the set of the positions of its 1 bits (bit 0 is the least
\* significant): all 32 bits are there, and nothing else.
Bits == 0..31
U32 == SUBSET Bits

\* the u32 of a number k below 2^31
RECURSIVE BitsFrom(_, _)
BitsFrom(k, i) ==
    IF k = 0 THEN {}
    ELSE (IF k % 2 = 1 THEN {i} ELSE {}) \cup BitsFrom(k \div 2, i + 1)

U(k) == BitsFrom(k, 0)

\* the low 8 bits of w as a number (a cast "as u8")
RECURSIVE LowBits(_, _)
LowBits(w, i) ==
    IF i >= 8 THEN 0
    ELSE (IF i \in w THEN 1 ELSE 0) + 2 * LowBits(w, i + 1)

AsU8(w) == LowBits(w, 0)

\* x & y
BitAnd(x, y) == x \cap y

\* x | y
BitOr(x, y) == x \cup y

\* x ^ y
BitXor(x, y) == (x \ y) \cup (y \ x)

\* !x
BitNot(x) == Bits \ x

\* x << s for s in 0..31: bits shifted past bit 31 are lost
Shl(x, s) == {i + s : i \in x} \cap Bits

\* x >> s for s in 0..31
Shr(x, s) == {i - s : i \in x} \cap Bits

\* the carry into bit i of x + y
RECURSIVE Carry(_, _, _)
Carry(x, y, i) ==
    IF i = 0 THEN 0
    ELSE ((IF (i - 1) \in x THEN 1 ELSE 0) + (IF (i - 1) \in y THEN 1 ELSE 0)
            + Carry(x, y, i - 1)) \div 2

\* x + y, wrapping at 2^32
Add(x, y) ==
    {i \in Bits : ((IF i \in x THEN 1 ELSE 0) + (IF i \in y THEN 1 ELSE 0) + Carry(x, y, i)) % 2 = 1}

\* x + y does not fit a u32
AddOverflows(x, y) == Carry(x, y, 32) = 1

(* ------------------------------------------------------------------ *)
(* model/color.rs                                                       *)
(* ------------------------------------------------------------------ *)

\* a Color is modelled by its idx field
WHITE == 0
RED == 1
BLUE == 2
ORANGE == 3
GREEN == 4
YELLOW == 5
NUM_COLORS == 6
ALL_COLORS == Arr(<<WHITE, RED, BLUE, ORANGE, GREEN, YELLOW>>)

Colors == 0..(NUM_COLORS - 1)

(* ------------------------------------------------------------------ *)
(* model/rotation.rs                                                    *)
(* ------------------------------------------------------------------ *)

Clockwise == "Clockwise"
CounterClockwise == "CounterClockwise"
Direction == {Clockwise, CounterClockwise}

\* struct Rotation { face, direction }
Rotation(face, direction) == [face |-> face, direction |-> direction]

\* Rotation::random taking the face from the remainder of the draw
RotationRandom_FaceByRemainder(i) ==
    LET direction == IF i % 2 = 0 THEN Clockwise ELSE CounterClockwise
    IN  Rotation(ALL_COLORS[i % NUM_COLORS], direction)

\* Rotation::random with the draw i = rng.gen_range(0..NUM_COLORS * 2)
RotationRandom(i) ==
    LET direction == IF i % 2 = 0 THEN Clockwise ELSE CounterClockwise
    IN  Rotation(ALL_COLORS[i \div 2], direction)

\* the values rng.gen_range(0..NUM_COLORS * 2) can return
RngDraws == 0..(NUM_COLORS * 2 - 1)

(* ------------------------------------------------------------------ *)
(* model/block.rs                                                       *)
(* ------------------------------------------------------------------ *)

\* struct BlockFace { color, face }
BlockFace(color, face) == [color |-> color, face |-> face]

\* BlockFace::is_solved
BlockFaceIsSolved(bf) == bf.color = bf.face

\* enum Block: Edge(a, b) | Corner(a, b, c); fs holds the facelets in order
Edge(a, b) == [kind |-> "Edge", fs |-> <<a, b>>]
Corner(a, b, c) == [kind |-> "Corner", fs |-> <<a, b, c>>]

\* Block::solved_edge
solved_edge(a, b) == Edge(BlockFace(a, a), BlockFace(b, b))

\* Block::solved_corner
solved_corner(a, b, c) == Corner(BlockFace(a, a), BlockFace(b, b), BlockFace(c, c))

\* Block::is_solved looking at the first facelet only
BlockIsSolvedFirstOnly(block) == BlockFaceIsSolved(block.fs[1])

\* Block::is_solved
BlockIsSolved(block) == \A k \in DOMAIN block.fs : BlockFaceIsSolved(block.fs[k])

\* Option<T>: Some(x) is <<x>>, None is <<>>
Some(x) == <<x>>
None == <<>>

\* Block::get_face: the colour of the first facelet lying on face, or None
BlockGetFace(block, face) ==
    LET hits == {k \in DOMAIN block.fs : block.fs[k].face = face}
    IN  IF hits = {} THEN None
        ELSE Some(block.fs[CHOOSE k \in hits : \A j \in hits : k <= j].color)

(* ------------------------------------------------------------------ *)
(* model/rubiks_cube.rs: the piece model                                *)
(* ------------------------------------------------------------------ *)

NUM_NEIGHBORS == 4
SIDE_LEN == 3

\* the table with the list of Yellow a copy of the list of White
ADJACENT_COLORS_YellowAsWhite ==
    Arr(<< Arr(<<GREEN, ORANGE, BLUE, RED>>),
           Arr(<<WHITE, BLUE, YELLOW, GREEN>>),
           Arr(<<WHITE, ORANGE, YELLOW, RED>>),
           Arr(<<WHITE, GREEN, YELLOW, BLUE>>),
           Arr(<<WHITE, RED, YELLOW, ORANGE>>),
           Arr(<<GREEN, ORANGE, BLUE, RED>>) >>)

\* Stored in the order Top, Right, Bottom, Left.
ADJACENT_COLORS ==
    Arr(<< Arr(<<GREEN, ORANGE, BLUE, RED>>),      \* White
           Arr(<<WHITE, BLUE, YELLOW, GREEN>>),    \* Red
           Arr(<<WHITE, ORANGE, YELLOW, RED>>),    \* Blue
           Arr(<<WHITE, GREEN, YELLOW, BLUE>>),    \* Orange
           Arr(<<WHITE, RED, YELLOW, ORANGE>>),    \* Green
           Arr(<<BLUE, ORANGE, GREEN, RED>>) >>)   \* Yellow

\* the CounterClockwise arm with the list left unreversed
ReversedNeighborsUnreversed(adjacent) == adjacent

\* the CounterClockwise arm of get_color_rotations: result[i] = adjacent[NUM_NEIGHBORS - i - 1]
ReversedNeighbors(adjacent) ==
    [i \in 0..(NUM_NEIGHBORS - 1) |-> adjacent[NUM_NEIGHBORS - i - 1]]

\* the loop of get_color_rotations stopping one entry early
RECURSIVE RotationLoopShort(_, _, _)
RotationLoopShort(result, faces_in_order, i) ==
    IF i >= NUM_NEIGHBORS - 2 THEN result
    ELSE RotationLoopShort([result EXCEPT ![faces_in_order[i]] = Some(faces_in_order[i + 1])],
                           faces_in_order, i + 1)

\* the loop "for i in 0..faces_in_order.len() - 1" of get_color_rotations, from index i
RECURSIVE RotationLoop(_, _, _)
RotationLoop(result, faces_in_order, i) ==
    IF i >= NUM_NEIGHBORS - 1 THEN result
    ELSE RotationLoop([result EXCEPT ![faces_in_order[i]] = Some(faces_in_order[i + 1])],
                      faces_in_order, i + 1)

\* get_color_rotations: arr[a] = Some(b) iff a rotates to b; None for the opposite face
get_color_rotations(rotation) ==
    LET face == rotation.face
        adjacent == ADJACENT_COLORS[face]
        faces_in_order ==
            IF rotation.direction = Clockwise THEN adjacent
            ELSE ReversedNeighbors(adjacent)
        r0 == [c \in Colors |-> None]
        r1 == [r0 EXCEPT ![face] = Some(face)]
        r2 == RotationLoop(r1, faces_in_order, 0)
    IN  [r2 EXCEPT ![faces_in_order[NUM_NEIGHBORS - 1]] = Some(faces_in_order[0])]

\* the pieces pushed by the first loop of RubiksCube::solved for one of WHITE, YELLOW
SolvedLayer(color) ==
    LET neighbors == ADJACENT_COLORS[color]
        pair(i) == << solved_corner(color, neighbors[i], neighbors[(i + 1) % NUM_NEIGHBORS]),
                      solved_edge(color, neighbors[i]) >>
    IN  pair(0) \o pair(1) \o pair(2) \o pair(3)

\* the pieces pushed by the second loop of RubiksCube::solved for one of GREEN, BLUE
RECURSIVE SolvedMiddle(_, _)
SolvedMiddle(color, i) ==
    IF i >= NUM_NEIGHBORS THEN <<>>
    ELSE LET neighbor == ADJACENT_COLORS[color][i]
         IN  (IF neighbor # WHITE /\ neighbor # YELLOW
              THEN <<solved_edge(color, neighbor)>> ELSE <<>>)
             \o SolvedMiddle(color, i + 1)

\* RubiksCube::solved: the 20 blocks in construction order (blocks[idx] is element idx + 1)
RubiksCubeSolved ==
    SolvedLayer(WHITE) \o SolvedLayer(YELLOW) \o SolvedMiddle(GREEN, 0) \o SolvedMiddle(BLUE, 0)

\* RubiksCube::is_solved
is_solved(blocks) == \A k \in DOMAIN blocks : BlockIsSolved(blocks[k])

\* the filter of RubiksCube::turn looking at the first facelet of the block only
OnFace_FirstFacelet(block, face) == block.fs[1].face = face

\* the filter of RubiksCube::turn: the block has a facelet on face
OnFace(block, face) == BlockGetFace(block, face) # None

\* one of the unwrap() calls of RubiksCube::turn fails on blocks
TurnPanics(blocks, rotation) ==
    LET rotations == get_color_rotations(rotation)
    IN  \E k \in DOMAIN blocks :
            /\ OnFace(blocks[k], rotation.face)
            /\ \E j \in DOMAIN blocks[k].fs : rotations[blocks[k].fs[j].face] = None

\* RubiksCube::turn without its filter: every facelet on a face the mapping
\* moves is moved, whether its piece lies on the turned face or not
turn_AllPieces(blocks, rotation) ==
    LET rotations == get_color_rotations(rotation)
    IN  [k \in DOMAIN blocks |->
            [blocks[k] EXCEPT !.fs =
                [j \in DOMAIN blocks[k].fs |->
                    IF rotations[blocks[k].fs[j].face] = None THEN blocks[k].fs[j]
                    ELSE [blocks[k].fs[j] EXCEPT
                              !.face = rotations[blocks[k].fs[j].face][1]]]]]

\* RubiksCube::turn (when no unwrap fails)
turn(blocks, rotation) ==
    LET face == rotation.face
        rotations == get_color_rotations(rotation)
    IN  [k \in DOMAIN blocks |->
            IF OnFace(blocks[k], face)
            THEN [blocks[k] EXCEPT !.fs =
                     [j \in DOMAIN blocks[k].fs |->
                         [blocks[k].fs[j] EXCEPT !.face = rotations[blocks[k].fs[j].face][1]]]]
            ELSE blocks[k]]

\* the scan shared by find_edge and find_corner: first block of the kind all of
\* whose requested colors are among its facelets' current faces
FindBlock(blocks, kind, colors) ==
    LET matches(block) ==
            /\ block.kind = kind
            /\ \A c \in DOMAIN colors : \E j \in DOMAIN block.fs : colors[c] = block.fs[j].face
        hits == {k \in DOMAIN blocks : matches(blocks[k])}
    IN  IF hits = {} THEN None
        ELSE Some(blocks[CHOOSE k \in hits : \A j \in hits : k <= j])

\* RubiksCube::find_edge
find_edge(blocks, colors) == FindBlock(blocks, "Edge", colors)

\* RubiksCube::find_corner
find_corner(blocks, colors) == FindBlock(blocks, "Corner", colors)

\* Both edge and corner indexes go Top, Right, Bottom, Left
edge_indexes == Arr(<< <<0, 1>>, <<1, 2>>, <<2, 1>>, <<1, 0>> >>)
corner_indexes == Arr(<< <<0, 2>>, <<2, 2>>, <<2, 0>>, <<0, 0>> >>)

\* the loop of RubiksCube::get_face from index i; each ? returns None from get_face
RECURSIVE GetFaceLoop(_, _, _, _)
GetFaceLoop(blocks, face, result, i) ==
    IF i >= NUM_NEIGHBORS THEN Some(result)
    ELSE
      LET neighbors == ADJACENT_COLORS[face]
          edge == find_edge(blocks, <<face, neighbors[i]>>)
          corner == find_corner(blocks,
                        <<face, neighbors[i], neighbors[(i + 1) % NUM_NEIGHBORS]>>)
      IN  IF edge = None THEN None
          ELSE IF BlockGetFace(edge[1], face) = None THEN None
          ELSE IF corner = None THEN None
          ELSE IF BlockGetFace(corner[1], face) = None THEN None
          ELSE
            LET ei == edge_indexes[i]
                ci == corner_indexes[i]
                r1 == [result EXCEPT ![ei[1]][ei[2]] = BlockGetFace(edge[1], face)[1]]
                r2 == [r1 EXCEPT ![ci[1]][ci[2]] = BlockGetFace(corner[1], face)[1]]
            IN  GetFaceLoop(blocks, face, r2, i + 1)

\* RubiksCube::get_face: the 3x3 grid of colours shown on face (a colour stands for its abrv)
get_face(blocks, face) ==
    LET blank == [r \in 0..(SIDE_LEN - 1) |-> [c \in 0..(SIDE_LEN - 1) |-> "X"]]
        looped == GetFaceLoop(blocks, face, blank, 0)
    IN  IF looped = None THEN None
        ELSE Some([looped[1] EXCEPT ![1][1] = face])

(* ------------------------------------------------------------------ *)
(* model/rubiks_cube.rs: RubiksCube::solve                              *)
(* ------------------------------------------------------------------ *)

\* all_rotations with the counterclockwise rotations left out
all_rotations_ClockwiseOnly ==
    [k \in 1..NUM_COLORS |-> Rotation(ALL_COLORS[k - 1], Clockwise)]

\* all_rotations: for each colour of ALL_COLORS, Clockwise then CounterClockwise
all_rotations ==
    [k \in 1..(2 * NUM_COLORS) |->
        Rotation(ALL_COLORS[(k - 1) \div 2],
                 IF (k - 1) % 2 = 0 THEN Clockwise ELSE CounterClockwise)]

\* a pair (state, accumulated rotations) of the queue
Pair(cube, acc) == [cube |-> cube, acc |-> acc]

\* the pairs enqueued for a dequeued pair, with each rotation put in front of the copy of acc
ExpandPrepend(next, next_acc) ==
    [k \in DOMAIN all_rotations |->
        Pair(turn(next, all_rotations[k]), <<all_rotations[k]>> \o next_acc)]

\* the for loop of solve over all_rotations: the pairs enqueued for a dequeued pair
Expand(next, next_acc) ==
    [k \in DOMAIN all_rotations |->
        Pair(turn(next, all_rotations[k]), Append(next_acc, all_rotations[k]))]

\* the queue of solve before its loop
SolveQueue(self) ==
    LET copy == self
    IN  IF ~is_solved(copy) THEN <<Pair(copy, <<>>)>> ELSE <<>>

\* the while loop of solve from a queue and a counter i: the returned sequence,
\* the final i, and whether the return is the one after the loop
RECURSIVE SolveLoop(_, _)
SolveLoop(queue, i) ==
    IF Len(queue) = 0
    THEN [acc |-> <<>>, i |-> i, exhausted |-> TRUE]
    ELSE LET next == Head(queue).cube
             next_acc == Head(queue).acc
         IN  IF is_solved(next)
             THEN [acc |-> next_acc, i |-> i + 1, exhausted |-> FALSE]
             ELSE SolveLoop(Tail(queue) \o Expand(next, next_acc), i + 1)

\* RubiksCube::solve
solve(self) == SolveLoop(SolveQueue(self), 0)

(* ------------------------------------------------------------------ *)
(* model/bit_cube.rs: the bit-packed model                              *)
(* ------------------------------------------------------------------ *)

LEAST_MASK == U(7)
TOP_EDGE_MASK == U(511)
CENTER_MASK == Shl(LEAST_MASK, 24)
EDGE_MASK_WithUnusedBits == BitNot(CENTER_MASK)
EDGE_MASK == BitXor(BitNot(CENTER_MASK), Shl(U(31), 27))
OVER_UNDER_FLOW_SHIFT == 18
UNDERFLOW_MASK == U(63)
OVERFLOW_MASK == Shl(UNDERFLOW_MASK, OVER_UNDER_FLOW_SHIFT)
BLOCK_SIZE == 3
ROTATE_SHIFT == 2 * BLOCK_SIZE
INTERNAL_TO_ROW_MAJOR == Arr(<<0, 1, 2, 5, 8, 7, 6, 3, 4>>)
ROW_MAJOR_TO_INTERNAL == Arr(<<0, 1, 2, 7, 8, 3, 6, 5, 4>>)

\* one (face, [cell; 3]) entry of ROTATION_INDEXES
RI(face, a, b, c) == <<face, Arr(<<a, b, c>>)>>

\* ROTATION_INDEXES with the strip of face 4 in the row of face 1 listed in ring order
ROTATION_INDEXES_RingOrder ==
    Arr(<< Arr(<<RI(1, 0, 1, 2), RI(2, 0, 1, 2), RI(3, 0, 1, 2), RI(4, 0, 1, 2)>>),
           Arr(<<RI(0, 0, 6, 7), RI(4, 2, 3, 4), RI(5, 0, 6, 7), RI(2, 0, 6, 7)>>),
           Arr(<<RI(0, 6, 5, 4), RI(1, 4, 3, 2), RI(5, 2, 1, 0), RI(3, 0, 7, 6)>>),
           Arr(<<RI(0, 2, 3, 4), RI(2, 2, 3, 4), RI(5, 2, 3, 4), RI(4, 6, 7, 0)>>),
           Arr(<<RI(0, 0, 1, 2), RI(3, 2, 3, 4), RI(5, 4, 5, 6), RI(1, 6, 7, 0)>>),
           Arr(<<RI(1, 4, 5, 6), RI(4, 4, 5, 6), RI(3, 4, 5, 6), RI(2, 4, 5, 6)>>) >>)

ROTATION_INDEXES ==
    Arr(<< Arr(<<RI(1, 0, 1, 2), RI(2, 0, 1, 2), RI(3, 0, 1, 2), RI(4, 0, 1, 2)>>),
           Arr(<<RI(0, 0, 6, 7), RI(4, 4, 2, 3), RI(5, 0, 6, 7), RI(2, 0, 6, 7)>>),
           Arr(<<RI(0, 6, 5, 4), RI(1, 4, 3, 2), RI(5, 2, 1, 0), RI(3, 0, 7, 6)>>),
           Arr(<<RI(0, 2, 3, 4), RI(2, 2, 3, 4), RI(5, 2, 3, 4), RI(4, 6, 7, 0)>>),
           Arr(<<RI(0, 0, 1, 2), RI(3, 2, 3, 4), RI(5, 4, 5, 6), RI(1, 6, 7, 0)>>),
           Arr(<<RI(1, 4, 5, 6), RI(4, 4, 5, 6), RI(3, 4, 5, 6), RI(2, 4, 5, 6)>>) >>)

\* Result<T>: Ok(x) or an error
Ok(x) == [ok |-> TRUE, val |-> x]
Err == [ok |-> FALSE]

\* Face::validate: Ok(()) unless the bail! is taken
FaceValidate(value) == ~(value > 7 \/ value = 0)

\* the loop of Face::solved from cell i: values += value << shift
RECURSIVE FaceSolvedLoop(_, _, _)
FaceSolvedLoop(values, value, i) ==
    IF i >= 9 THEN values
    ELSE FaceSolvedLoop(Add(values, Shl(U(value), i * BLOCK_SIZE)), value, i + 1)

\* Face::solved
FaceSolved(value) ==
    IF ~FaceValidate(value) THEN Err
    ELSE Ok(FaceSolvedLoop(U(0), value, 0))

\* Face::rotate_mut without the cells shifted out of the ring put back
rotate_mut_NoWrap(values, direction) ==
    LET edges == values
        center == BitAnd(values, CENTER_MASK)
    IN  IF direction = Clockwise
        THEN BitOr(BitAnd(Shl(edges, ROTATE_SHIFT), EDGE_MASK), center)
        ELSE BitOr(Shr(BitAnd(edges, EDGE_MASK), ROTATE_SHIFT), center)

\* Face::rotate_mut
rotate_mut(values, direction) ==
    LET edges == values
        center == BitAnd(values, CENTER_MASK)
    IN  IF direction = Clockwise
        THEN LET rotated_edges == BitAnd(Shl(edges, ROTATE_SHIFT), EDGE_MASK)
                 overflow == Shr(BitAnd(values, OVERFLOW_MASK), OVER_UNDER_FLOW_SHIFT)
             IN  BitOr(BitOr(overflow, rotated_edges), center)
        ELSE LET rotated_edges == Shr(BitAnd(edges, EDGE_MASK), ROTATE_SHIFT)
                 underflow == Shl(BitAnd(values, UNDERFLOW_MASK), OVER_UNDER_FLOW_SHIFT)
             IN  BitOr(BitOr(underflow, rotated_edges), center)

\* Face::get for an index that passes the "index > 8" check; the result is cast to u8
FaceGet(values, index) ==
    LET shift == index * BLOCK_SIZE
        mask == Shl(LEAST_MASK, shift)
    IN  AsU8(Shr(BitAnd(values, mask), shift))

\* Face::set without clearing the cell first
FaceSetNoClear(values, index, value) ==
    LET shift == index * BLOCK_SIZE
    IN  BitOr(values, Shl(U(value), shift))

\* Face::set for a value that passes validate
FaceSet(values, index, value) ==
    LET shift == index * BLOCK_SIZE
        mask == Shl(LEAST_MASK, shift)
    IN  BitOr(BitAnd(values, BitNot(mask)), Shl(U(value), shift))

\* "LEAST_MASK << shift" of Face::get / Face::set overflows: the shift is not below
\* the 32 bits of a u32.  With overflow checks the build panics there, without
\* them the shift is taken modulo 32.
ShiftOverflows(shift) == shift >= 32

\* Face::set, for a value that passes validate, in a build without overflow checks
FaceSetWrapping(values, index, value) ==
    LET shift == (index * BLOCK_SIZE) % 32
        mask == Shl(LEAST_MASK, shift)
    IN  BitOr(BitAnd(values, BitNot(mask)), Shl(U(value), shift))

\* enum Ordinal
North == "North"
South == "South"
East == "East"
West == "West"
Ordinal == {North, South, East, West}

\* Face::get_edge
get_edge(values, ordinal, reverse) ==
    LET unreversed_raw ==
            CASE ordinal = North -> values
              [] ordinal = South -> Shr(values, ROTATE_SHIFT * 2)
              [] ordinal = East -> Shr(values, ROTATE_SHIFT)
              [] ordinal = West ->
                    LET first_two == BitAnd(Shr(values, ROTATE_SHIFT * 3), UNDERFLOW_MASK)
                        last == Shl(values, ROTATE_SHIFT)
                    IN  BitOr(first_two, last)
        unreversed == BitAnd(unreversed_raw, TOP_EDGE_MASK)
    IN  IF reverse
        THEN LET first == Shr(unreversed, BLOCK_SIZE * 2)
                 middle == BitAnd(unreversed, Shl(LEAST_MASK, BLOCK_SIZE))
                 last == BitAnd(Shl(unreversed, BLOCK_SIZE * 2), TOP_EDGE_MASK)
             IN  BitOr(BitOr(first, middle), last)
        ELSE unreversed

\* Face::set_edge on the word self_values: the West arm returns early
set_edge(self_values, values, ordinal) ==
    IF ordinal = West
    THEN LET first == BitAnd(U(7), values)
             last_two == BitAnd(U(504), values)
             shift == ROTATE_SHIFT * 3 - BLOCK_SIZE
             mask == BitNot(BitOr(Shl(U(63), 18), U(7)))
         IN  BitOr(BitOr(BitAnd(self_values, mask), first), Shl(last_two, shift))
    ELSE LET shift == CASE ordinal = North -> 0
                        [] ordinal = South -> ROTATE_SHIFT * 2
                        [] ordinal = East -> ROTATE_SHIFT
             shifted_values == Shl(values, shift)
             mask == BitNot(Shl(U(511), shift))
         IN  BitOr(BitAnd(self_values, mask), shifted_values)

\* BitCube::solved: faces[i - 1] = Face::solved(i).expect(..) for i in 1..=6
BitCubeSolved == [f \in 0..5 |-> FaceSolved(f + 1).val]

\* BitCube::copy_values
copy_values(faces, face, indexes) ==
    [i \in 0..2 |-> FaceGet(faces[face], indexes[i])]

\* the loop of BitCube::overwrite_values from i, on the packed word of the face
RECURSIVE OverwriteLoop(_, _, _, _)
OverwriteLoop(word, indexes, values, i) ==
    IF i >= 3 THEN word
    ELSE OverwriteLoop(FaceSet(word, indexes[i], values[i]), indexes, values, i + 1)

\* a cell value rejected by the validate inside Face::set
OverwritePanics(values) == \E i \in DOMAIN values : ~FaceValidate(values[i])

\* BitCube::overwrite_values
overwrite_values(faces, face_index, indexes, values) ==
    [faces EXCEPT ![face_index] = OverwriteLoop(faces[face_index], indexes, values, 0)]

\* indexes.reverse() of BitCube::turn
ReverseIndexes(indexes) == [i \in 0..3 |-> indexes[3 - i]]

\* the loop "for i in 0..indexes.len() - 1" of BitCube::turn, from i
RECURSIVE BitTurnLoop(_, _, _)
BitTurnLoop(faces, indexes, i) ==
    IF i >= 3 THEN faces
    ELSE LET src == indexes[i + 1]
             src_values == copy_values(faces, src[1], src[2])
             dest == indexes[i]
         IN  BitTurnLoop(overwrite_values(faces, dest[1], dest[2], src_values), indexes, i + 1)

\* some Face::set of the loop of BitCube::turn, from i, is handed a value its validate rejects
RECURSIVE BitTurnLoopPanics(_, _, _)
BitTurnLoopPanics(faces, indexes, i) ==
    IF i >= 3 THEN FALSE
    ELSE LET src == indexes[i + 1]
             src_values == copy_values(faces, src[1], src[2])
             dest == indexes[i]
         IN  \/ OverwritePanics(src_values)
             \/ BitTurnLoopPanics(overwrite_values(faces, dest[1], dest[2], src_values),
                                  indexes, i + 1)

\* BitCube::turn aborts in an expect() of Face::set
BitTurnPanics(faces, face, direction) ==
    LET indexes == IF direction = CounterClockwise
                   THEN ReverseIndexes(ROTATION_INDEXES[face])
                   ELSE ROTATION_INDEXES[face]
        tmp == indexes[0]
    IN  \/ BitTurnLoopPanics(faces, indexes, 0)
        \/ OverwritePanics(copy_values(faces, tmp[1], tmp[2]))

\* BitCube::turn without tmp_values: the last strip is written from the first
\* strip as it is after the loop
BitTurn_NoTmp(faces, face, direction) ==
    LET indexes == IF direction = CounterClockwise
                   THEN ReverseIndexes(ROTATION_INDEXES[face])
                   ELSE ROTATION_INDEXES[face]
        tmp == indexes[0]
        looped == BitTurnLoop(faces, indexes, 0)
        last == indexes[3]
        written == overwrite_values(looped, last[1], last[2],
                                    copy_values(looped, tmp[1], tmp[2]))
    IN  [written EXCEPT ![face] = rotate_mut(written[face], direction)]

\* BitCube::turn for a face index in 0..5
BitTurn(faces, face, direction) ==
    LET indexes == IF direction = CounterClockwise
                   THEN ReverseIndexes(ROTATION_INDEXES[face])
                   ELSE ROTATION_INDEXES[face]
        tmp == indexes[0]
        tmp_values == copy_values(faces, tmp[1], tmp[2])
        looped == BitTurnLoop(faces, indexes, 0)
        last == indexes[3]
        written == overwrite_values(looped, last[1], last[2], tmp_values)
    IN  [written EXCEPT ![face] = rotate_mut(written[face], direction)]

\* the word the loop of overwrite_values leaves, from i, when it stops at the
\* first value the validate of Face::set rejects (or at its end)
RECURSIVE OverwriteAborted(_, _, _, _)
OverwriteAborted(word, indexes, values, i) ==
    IF i >= 3 THEN word
    ELSE IF ~FaceValidate(values[i]) THEN word
    ELSE OverwriteAborted(FaceSet(word, indexes[i], values[i]), indexes, values, i + 1)

\* the faces the loop of BitCube::turn leaves, from i, when it stops at the first
\* Face::set that aborts (or at its end)
RECURSIVE BitTurnLoopAborted(_, _, _)
BitTurnLoopAborted(faces, indexes, i) ==
    IF i >= 3 THEN faces
    ELSE LET src == indexes[i + 1]
             src_values == copy_values(faces, src[1], src[2])
             dest == indexes[i]
         IN  IF OverwritePanics(src_values)
             THEN [faces EXCEPT ![dest[1]] =
                      OverwriteAborted(faces[dest[1]], dest[2], src_values, 0)]
             ELSE BitTurnLoopAborted(overwrite_values(faces, dest[1], dest[2], src_values),
                                     indexes, i + 1)

\* the faces BitCube::turn leaves behind when a Face::set of it aborts
BitTurnAborted(faces, face, direction) ==
    LET indexes == IF direction = CounterClockwise
                   THEN ReverseIndexes(ROTATION_INDEXES[face])
                   ELSE ROTATION_INDEXES[face]
        tmp == indexes[0]
        tmp_values == copy_values(faces, tmp[1], tmp[2])
        looped == BitTurnLoopAborted(faces, indexes, 0)
        last == indexes[3]
    IN  IF BitTurnLoopPanics(faces, indexes, 0) THEN looped
        ELSE [looped EXCEPT ![last[1]] =
                 OverwriteAborted(looped[last[1]], last[2], tmp_values, 0)]

\* the loop of Face::from, from i: each ? returns the error of validate
RECURSIVE FaceFromLoop(_, _, _, _)
FaceFromLoop(values, representation, shift, i) ==
    IF i >= 9 THEN Ok(representation)
    ELSE LET value == values[ROW_MAJOR_TO_INTERNAL[i]]
         IN  IF ~FaceValidate(value) THEN Err
             ELSE FaceFromLoop(values, BitOr(representation, Shl(U(value), shift)),
                               shift + BLOCK_SIZE, i + 1)

\* Face::from
FaceFrom(values) == FaceFromLoop(values, U(0), 0, 0)

\* BitCube::from: faces[i] = Face { values: src[i] }
BitCubeFrom(src) == [i \in 0..5 |-> src[i]]

\* Face::pretty_fmt / pretty_fmt_row: the cells printed, row by row, left to right
pretty_fmt(values) ==
    [row \in 0..(SIDE_LEN - 1) |->
        [col \in 0..(SIDE_LEN - 1) |->
            FaceGet(values, ROW_MAJOR_TO_INTERNAL[row * SIDE_LEN + col])]]

\* struct Move { face, direction }
Move(face, direction) == [face |-> face, direction |-> direction]

\* Move::random with the draw i = rng.gen_range(0..6 * 2)
MoveRandom(i) ==
    LET direction == IF i % 2 = 0 THEN Clockwise ELSE CounterClockwise
    IN  Move(i \div 2, direction)

(* ------------------------------------------------------------------ *)
(* main.rs: the earlier 26-block program, its get_color_rotations       *)
(* ------------------------------------------------------------------ *)

\* ADJACENT_COLORS of main.rs.  Stored in the order Top, Right, Bottom, Left.
MainADJACENT_COLORS ==
    Arr(<< Arr(<<GREEN, ORANGE, BLUE, RED>>),      \* White
           Arr(<<WHITE, BLUE, YELLOW, GREEN>>),    \* Red
           Arr(<<WHITE, ORANGE, YELLOW, RED>>),    \* Blue
           Arr(<<WHITE, GREEN, YELLOW, BLUE>>),    \* Orange
           Arr(<<WHITE, RED, YELLOW, ORANGE>>),    \* Green
           Arr(<<BLUE, ORANGE, GREEN, RED>>) >>)   \* Yellow

\* the CounterClockwise arm of main.rs with the reverse() left out
MainReversedUnreversed(adjacent) == adjacent

\* the CounterClockwise arm of main.rs: adjacent.clone() then reverse() in place,
\* which swaps entry i with entry len - 1 - i
MainReversed(adjacent) ==
    LET len == NUM_NEIGHBORS
    IN  [i \in 0..(len - 1) |-> adjacent[len - 1 - i]]

\* the loop "for i in 0..faces_in_order.len() - 1" of main.rs, from index i
RECURSIVE MainRotationLoop(_, _, _)
MainRotationLoop(result, faces_in_order, i) ==
    IF i >= NUM_NEIGHBORS - 1 THEN result
    ELSE MainRotationLoop([result EXCEPT ![faces_in_order[i]] = Some(faces_in_order[i + 1])],
                          faces_in_order, i + 1)

\* get_color_rotations of main.rs
MainGetColorRotations(face, direction) ==
    LET adjacent == MainADJACENT_COLORS[face]
        faces_in_order ==
            IF direction = Clockwise THEN adjacent
            ELSE MainReversed(adjacent)
        r0 == [c \in Colors |-> None]
        r1 == [r0 EXCEPT ![face] = Some(face)]
        r2 == MainRotationLoop(r1, faces_in_order, 0)
    IN  [r2 EXCEPT ![faces_in_order[NUM_NEIGHBORS - 1]] = Some(faces_in_order[0])]

(* ------------------------------------------------------------------ *)
(* State                                                                *)
(* ------------------------------------------------------------------ *)

VARIABLES
    pc,        \* position of the program: "scramble", "scrambled", "done"
    blocks,    \* RubiksCube.blocks of the cube being scrambled
    faces,     \* BitCube.faces of the bit-packed cube driven by the same draws
    n,         \* the argument n of RubiksCube::scramble
    result,    \* the local result of RubiksCube::scramble (its return value at the end)
    panicked,  \* TRUE once an unwrap()/expect() of a turn has failed
    returned,  \* the Vec<Rotation> RubiksCube::solve has returned
    iters,     \* the counter i of RubiksCube::solve when it returned
    face,      \* the Face the caller holds: None, or Some(values) once one is built
    call,      \* the last call made on Face / BitCube and the cell values it was handed
    outcome,   \* how that call ended: "ok", "err" (Err returned) or "panic"
    ret,       \* what that call returned, for Face::get and Face::get_edge
    ncalls,    \* number of calls made on Face / BitCube
    heap,      \* the Box<[Block; 20]> allocations alive during solve, by address
    frontier,  \* the queue of solve: pairs (address of the cube, rotations so far)
    dequeued,  \* the pair (next, next_acc) the loop of solve is working on
    rot,       \* position of the for loop of solve in all_rotations
    nalloc,    \* the address the next allocation gets
    removed    \* the length of next_acc at each queue.remove() of solve so far, in order

vars == <<pc, blocks, faces, n, result, panicked, returned, iters, face, call, outcome, ret,
          ncalls, heap, frontier, dequeued, rot, nalloc, removed>>
cubeVars == <<blocks, faces, n, result, panicked>>
solveVars == <<returned, iters>>
faceVars == <<face, call, outcome, ret, ncalls>>
searchVars == <<heap, frontier, dequeued, rot, nalloc, removed>>

(* ------------------------------------------------------------------ *)
(* Scrambling: RubiksCube::scramble, with the BitCube turned alongside  *)
(* ------------------------------------------------------------------ *)

\* both cubes freshly solved, scramble(rng, n) about to run
Init ==
    /\ pc = "scramble"
    /\ blocks = RubiksCubeSolved
    /\ faces = BitCubeSolved
    /\ n \in 0..MaxMoves
    /\ result = <<>>
    /\ panicked = FALSE
    /\ returned = <<>>
    /\ iters = 0
    /\ face = None
    /\ call = [op |-> "none", cells |-> {}, args |-> <<>>]
    /\ outcome = "none"
    /\ ret = None
    /\ ncalls = 0
    /\ heap = <<>>
    /\ frontier = <<>>
    /\ dequeued = None
    /\ rot = 0
    /\ nalloc = 0
    /\ removed = <<>>

\* an iteration of scramble that puts the rotation at the front of result
ScrambleStepPrepend ==
    /\ pc = "scramble"
    /\ ~panicked
    /\ Len(result) < n
    /\ \E i \in RngDraws :
        LET rotation == RotationRandom(i)
            move == MoveRandom(i)
        IN  /\ blocks' = turn(blocks, rotation)
            /\ faces' = BitTurn(faces, move.face, move.direction)
            /\ result' = <<rotation>> \o result
            /\ UNCHANGED <<pc, n, panicked, solveVars, faceVars, searchVars>>

\* one iteration of the loop of scramble: draw, turn, push.  The same draw,
\* decoded by Move::random, turns the bit-packed cube.
ScrambleStep ==
    /\ pc = "scramble"
    /\ ~panicked
    /\ Len(result) < n
    /\ \E i \in RngDraws :
        LET rotation == RotationRandom(i)
            move == MoveRandom(i)
        IN  IF TurnPanics(blocks, rotation) \/ BitTurnPanics(faces, move.face, move.direction)
            THEN /\ panicked' = TRUE
                 /\ UNCHANGED <<pc, blocks, faces, n, result, solveVars, faceVars, searchVars>>
            ELSE /\ blocks' = turn(blocks, rotation)
                 /\ faces' = BitTurn(faces, move.face, move.direction)
                 /\ result' = Append(result, rotation)
                 /\ UNCHANGED <<pc, n, panicked, solveVars, faceVars, searchVars>>

\* scramble returns result after n iterations
ScrambleReturn ==
    /\ pc = "scramble"
    /\ ~panicked
    /\ Len(result) = n
    /\ pc' = "scrambled"
    /\ UNCHANGED <<blocks, faces, n, result, panicked, solveVars, faceVars, searchVars>>

Next == ScrambleStep \/ ScrambleReturn

Spec == Init /\ [][Next]_vars

(* ------------------------------------------------------------------ *)
(* Solving the scrambled cube: RubiksCube::solve                        *)
(* ------------------------------------------------------------------ *)

\* solve is called on the cube scramble has left and runs to its return.  The
\* frontier grows as 12^depth, so it is run on scrambles of MaxSolveMoves at most.
Solve ==
    /\ pc = "scrambled"
    /\ n <= MaxSolveMoves
    /\ LET r == solve(blocks)
       IN  /\ returned' = r.acc
           /\ iters' = r.i
    /\ pc' = "done"
    /\ UNCHANGED <<cubeVars, faceVars, searchVars>>

NextSolve == ScrambleStep \/ ScrambleReturn \/ Solve

SolveSpec == Init /\ [][NextSolve]_vars

(* ------------------------------------------------------------------ *)
(* RubiksCube::solve step by step, with the allocations it makes        *)
(* ------------------------------------------------------------------ *)

\* A RubiksCube owns one allocation, blocks: Box<[Block; 20]>.  heap maps the
\* address of every live allocation to the 20 blocks in it; a cube held by
\* solve (copy, next, next_copy, the cubes of the queue) is its address.

\* the address of the Box of the cube solve is called on
SelfRef == 0

\* a clone that shares the Box of the cube it is made from
BoxCloneShared(h, id, fresh) == [heap |-> h, ref |-> id]

\* #[derive(Clone)] of RubiksCube: Box::clone allocates a new array, at the
\* address fresh, and clones the 20 blocks of the Box at id into it
BoxClone(h, id, fresh) == [heap |-> (fresh :> h[id]) @@ h, ref |-> fresh]

\* the allocations of ids are freed
BoxDrop(h, ids) == [id \in DOMAIN h \ ids |-> h[id]]

\* a head of solve that seeds the queue when the copy is solved
SolveStart_SeedIfSolved ==
    /\ pc = "scrambled"
    /\ n <= MaxSearchMoves
    /\ LET copy == BoxClone(SelfRef :> blocks, SelfRef, SelfRef + 1)
       IN  /\ heap' = copy.heap
           /\ frontier' = IF is_solved(copy.heap[copy.ref])
                          THEN <<Pair(copy.ref, <<>>)>>
                          ELSE <<>>
    /\ nalloc' = SelfRef + 2
    /\ iters' = 0
    /\ removed' = <<>>
    /\ pc' = "while"
    /\ UNCHANGED <<cubeVars, faceVars, returned, dequeued, rot>>

\* the head of solve: copy = self.clone(), queue seeded with copy unless solved
SolveStart ==
    /\ pc = "scrambled"
    /\ n <= MaxSearchMoves
    /\ LET copy == BoxClone(SelfRef :> blocks, SelfRef, SelfRef + 1)
       IN  /\ heap' = copy.heap
           /\ frontier' = IF ~is_solved(copy.heap[copy.ref])
                          THEN <<Pair(copy.ref, <<>>)>>
                          ELSE <<>>
    /\ nalloc' = SelfRef + 2
    /\ iters' = 0
    /\ removed' = <<>>
    /\ pc' = "while"
    /\ UNCHANGED <<cubeVars, faceVars, returned, dequeued, rot>>

\* a pass of the while loop whose for loop leaves out the first rotation
SolveRemove_SkipFirst ==
    /\ pc = "while"
    /\ Len(frontier) # 0
    /\ iters' = iters + 1
    /\ removed' = Append(removed, Len(Head(frontier).acc))
    /\ IF is_solved(heap[Head(frontier).cube])
       THEN /\ returned' = Head(frontier).acc
            /\ pc' = "done"
            /\ heap' = BoxDrop(heap, DOMAIN heap \ {SelfRef})
            /\ frontier' = <<>>
            /\ dequeued' = None
            /\ rot' = rot
       ELSE /\ dequeued' = Some(Head(frontier))
            /\ frontier' = Tail(frontier)
            /\ pc' = "for"
            /\ rot' = 2
            /\ UNCHANGED <<returned, heap>>
    /\ UNCHANGED <<cubeVars, faceVars, nalloc>>

\* one pass of "while queue.size() != 0" up to the for loop: count, remove the
\* front pair, return its rotations if its cube is solved (the locals of solve
\* are dropped), otherwise enter the for loop
SolveRemove ==
    /\ pc = "while"
    /\ Len(frontier) # 0
    /\ iters' = iters + 1
    /\ removed' = Append(removed, Len(Head(frontier).acc))
    /\ IF is_solved(heap[Head(frontier).cube])
       THEN /\ returned' = Head(frontier).acc
            /\ pc' = "done"
            /\ heap' = BoxDrop(heap, DOMAIN heap \ {SelfRef})
            /\ frontier' = <<>>
            /\ dequeued' = None
            /\ rot' = rot
       ELSE /\ dequeued' = Some(Head(frontier))
            /\ frontier' = Tail(frontier)
            /\ pc' = "for"
            /\ rot' = 1
            /\ UNCHANGED <<returned, heap>>
    /\ UNCHANGED <<cubeVars, faceVars, nalloc>>

\* an iteration of the for loop that puts the pair at the front of the queue
SolveFor_AddFront ==
    /\ pc = "for"
    /\ ~panicked
    /\ rot <= Len(all_rotations)
    /\ LET rotation == all_rotations[rot]
           next_copy == BoxClone(heap, dequeued[1].cube, nalloc)
           next_acc_copy == dequeued[1].acc
       IN  IF TurnPanics(next_copy.heap[next_copy.ref], rotation)
           THEN /\ panicked' = TRUE
                /\ heap' = next_copy.heap
                /\ UNCHANGED <<frontier, rot, blocks, faces, n, result>>
           ELSE /\ heap' = [next_copy.heap EXCEPT ![next_copy.ref] = turn(@, rotation)]
                /\ frontier' = <<Pair(next_copy.ref, Append(next_acc_copy, rotation))>>
                                    \o frontier
                /\ rot' = rot + 1
                /\ UNCHANGED cubeVars
    /\ nalloc' = nalloc + 1
    /\ UNCHANGED <<pc, faceVars, solveVars, dequeued, removed>>

\* one iteration of "for rotation in all_rotations.iter()": clone next and
\* next_acc, turn the clone, push the rotation, add the pair to the queue
SolveFor ==
    /\ pc = "for"
    /\ ~panicked
    /\ rot <= Len(all_rotations)
    /\ LET rotation == all_rotations[rot]
           next_copy == BoxClone(heap, dequeued[1].cube, nalloc)
           next_acc_copy == dequeued[1].acc
       IN  IF TurnPanics(next_copy.heap[next_copy.ref], rotation)
           THEN /\ panicked' = TRUE
                /\ heap' = next_copy.heap
                /\ UNCHANGED <<frontier, rot, blocks, faces, n, result>>
           ELSE /\ heap' = [next_copy.heap EXCEPT ![next_copy.ref] = turn(@, rotation)]
                /\ frontier' = Append(frontier,
                                      Pair(next_copy.ref, Append(next_acc_copy, rotation)))
                /\ rot' = rot + 1
                /\ UNCHANGED cubeVars
    /\ nalloc' = nalloc + 1
    /\ UNCHANGED <<pc, faceVars, solveVars, dequeued, removed>>

\* an end of the for loop that waits for one more iteration than the loop makes
SolveForEnd_OneMore ==
    /\ pc = "for"
    /\ ~panicked
    /\ rot > Len(all_rotations) + 1
    /\ heap' = BoxDrop(heap, {dequeued[1].cube})
    /\ dequeued' = None
    /\ pc' = "while"
    /\ UNCHANGED <<cubeVars, faceVars, solveVars, frontier, rot, nalloc, removed>>

\* the end of the for loop: next and next_acc go out of scope, back to the while
SolveForEnd ==
    /\ pc = "for"
    /\ ~panicked
    /\ rot > Len(all_rotations)
    /\ heap' = BoxDrop(heap, {dequeued[1].cube})
    /\ dequeued' = None
    /\ pc' = "while"
    /\ UNCHANGED <<cubeVars, faceVars, solveVars, frontier, rot, nalloc, removed>>

\* the queue is empty: solve returns Vec::new() and drops its locals
SolveExhausted ==
    /\ pc = "while"
    /\ Len(frontier) = 0
    /\ returned' = <<>>
    /\ pc' = "done"
    /\ heap' = BoxDrop(heap, DOMAIN heap \ {SelfRef})
    /\ UNCHANGED <<cubeVars, faceVars, iters, frontier, dequeued, rot, nalloc, removed>>

NextSearch ==
    \/ ScrambleStep
    \/ ScrambleReturn
    \/ SolveStart
    \/ SolveRemove
    \/ SolveFor
    \/ SolveForEnd
    \/ SolveExhausted

SearchSpec == Init /\ [][NextSearch]_vars

\* the steps of solve
SolveSteps == SolveStart \/ SolveRemove \/ SolveFor \/ SolveForEnd \/ SolveExhausted

\* solve is sequential code with no suspension point: once called, whenever it
\* has a next step to take, it takes it
SearchLiveSpec == Init /\ [][NextSearch]_vars /\ WF_vars(SolveSteps)

(* ------------------------------------------------------------------ *)
(* A caller of the bit model: the public functions of Face and BitCube  *)
(* ------------------------------------------------------------------ *)

\* the cell values a caller hands over
CellInputs == 0..MaxCellInput

\* the arrays handed to Face::from: nine valid values, any one of them replaced
FromBase == [i \in 0..8 |-> (i % NUM_COLORS) + 1]
FromInputs == {[FromBase EXCEPT ![p] = v] : p \in 0..8, v \in CellInputs}

\* the words handed to BitCube::from: the solved words, any one of them
\* replaced by the word whose nine 3-bit cells are v
CubeInputs ==
    {[f \in 0..5 |-> IF f = g THEN FaceSolvedLoop(U(0), v % 8, 0) ELSE BitCubeSolved[f]] :
        g \in 0..5, v \in CellInputs}

\* the nine cells of a packed word
Cells(values) == {FaceGet(values, i) : i \in 0..8}

\* no face built, no call made
FaceInit ==
    /\ pc = "caller"
    /\ blocks = RubiksCubeSolved
    /\ faces = BitCubeSolved
    /\ n = 0
    /\ result = <<>>
    /\ panicked = FALSE
    /\ returned = <<>>
    /\ iters = 0
    /\ face = None
    /\ call = [op |-> "none", cells |-> {}, args |-> <<>>]
    /\ outcome = "none"
    /\ ret = None
    /\ ncalls = 0
    /\ heap = <<>>
    /\ frontier = <<>>
    /\ dequeued = None
    /\ rot = 0
    /\ nalloc = 0
    /\ removed = <<>>

\* the strips handed to Face::set_edge: three cells, the first in the low bits
Strip(a, b, c) == BitOr(BitOr(U(a), Shl(U(b), BLOCK_SIZE)), Shl(U(c), BLOCK_SIZE * 2))
StripInputs == {Strip(a, b, c) : a \in 1..MaxStripCell, b \in 1..MaxStripCell, c \in 1..MaxStripCell}

\* Face::solved(value)
CallFaceSolved ==
    /\ pc = "caller"
    /\ ncalls < MaxCalls
    /\ \E value \in CellInputs :
        LET r == FaceSolved(value)
        IN  /\ call' = [op |-> "Face::solved", cells |-> {value}, args |-> <<value>>]
            /\ outcome' = IF r.ok THEN "ok" ELSE "err"
            /\ face' = IF r.ok THEN Some(r.val) ELSE face
    /\ ret' = None
    /\ ncalls' = ncalls + 1
    /\ UNCHANGED <<pc, cubeVars, solveVars, searchVars>>

\* Face::from(values)
CallFaceFrom ==
    /\ pc = "caller"
    /\ ncalls < MaxCalls
    /\ \E values \in FromInputs :
        LET r == FaceFrom(values)
        IN  /\ call' = [op |-> "Face::from", cells |-> {values[i] : i \in 0..8},
                        args |-> <<values>>]
            /\ outcome' = IF r.ok THEN "ok" ELSE "err"
            /\ face' = IF r.ok THEN Some(r.val) ELSE face
    /\ ret' = None
    /\ ncalls' = ncalls + 1
    /\ UNCHANGED <<pc, cubeVars, solveVars, searchVars>>

\* face.get(index) on the face the caller holds
CallFaceGet ==
    /\ pc = "caller"
    /\ ncalls < MaxCalls
    /\ face # None
    /\ \E index \in 0..MaxIndex :
        /\ call' = [op |-> "Face::get", cells |-> {}, args |-> <<index>>]
        /\ IF index > 8
           THEN /\ outcome' = "panic"
                /\ ret' = None
           ELSE /\ outcome' = "ok"
                /\ ret' = Some(FaceGet(face[1], index))
    /\ ncalls' = ncalls + 1
    /\ UNCHANGED <<pc, cubeVars, solveVars, searchVars, face>>

\* face.set(index, value) on the face the caller holds.  There is no check of
\* index: the shift index * 3 is used as it is, and where it overflows the
\* outcome is the one of the build, a panic or the shift modulo 32.
CallFaceSet ==
    /\ pc = "caller"
    /\ ncalls < MaxCalls
    /\ face # None
    /\ \E index \in 0..MaxIndex : \E value \in CellInputs :
        /\ call' = [op |-> "Face::set", cells |-> {value}, args |-> <<index, value>>]
        /\ IF ~FaceValidate(value)
           THEN /\ outcome' = "panic"
                /\ face' = face
           ELSE IF ShiftOverflows(index * BLOCK_SIZE)
           THEN \/ /\ outcome' = "panic"
                   /\ face' = face
                \/ /\ outcome' = "ok"
                   /\ face' = Some(FaceSetWrapping(face[1], index, value))
           ELSE /\ outcome' = "ok"
                /\ face' = Some(FaceSet(face[1], index, value))
    /\ ret' = None
    /\ ncalls' = ncalls + 1
    /\ UNCHANGED <<pc, cubeVars, solveVars, searchVars>>

\* face.get_edge(ordinal, reverse) on the face the caller holds
CallGetEdge ==
    /\ pc = "caller"
    /\ ncalls < MaxCalls
    /\ face # None
    /\ \E ordinal \in Ordinal : \E reverse \in BOOLEAN :
        /\ call' = [op |-> "Face::get_edge", cells |-> {}, args |-> <<ordinal, reverse>>]
        /\ ret' = Some(get_edge(face[1], ordinal, reverse))
    /\ outcome' = "ok"
    /\ ncalls' = ncalls + 1
    /\ UNCHANGED <<pc, cubeVars, solveVars, searchVars, face>>

\* face.set_edge(values, ordinal) on the face the caller holds
CallSetEdge ==
    /\ pc = "caller"
    /\ ncalls < MaxCalls
    /\ face # None
    /\ \E values \in StripInputs : \E ordinal \in Ordinal :
        /\ call' = [op |-> "Face::set_edge",
                    cells |-> {FaceGet(values, i) : i \in 0..2},
                    args |-> <<values, ordinal>>]
        /\ face' = Some(set_edge(face[1], values, ordinal))
    /\ outcome' = "ok"
    /\ ret' = None
    /\ ncalls' = ncalls + 1
    /\ UNCHANGED <<pc, cubeVars, solveVars, searchVars>>

\* face.rotate_mut(direction) on the face the caller holds
CallRotateMut ==
    /\ pc = "caller"
    /\ ncalls < MaxCalls
    /\ face # None
    /\ \E direction \in Direction :
        /\ call' = [op |-> "Face::rotate_mut", cells |-> {}, args |-> <<direction>>]
        /\ face' = Some(rotate_mut(face[1], direction))
    /\ outcome' = "ok"
    /\ ret' = None
    /\ ncalls' = ncalls + 1
    /\ UNCHANGED <<pc, cubeVars, solveVars, searchVars>>

\* BitCube::from(src)
CallBitCubeFrom ==
    /\ pc = "caller"
    /\ ncalls < MaxCalls
    /\ \E src \in CubeInputs :
        /\ call' = [op |-> "BitCube::from", cells |-> UNION {Cells(src[f]) : f \in 0..5},
                    args |-> <<src>>]
        /\ outcome' = "ok"
        /\ faces' = BitCubeFrom(src)
    /\ ret' = None
    /\ ncalls' = ncalls + 1
    /\ UNCHANGED <<pc, blocks, n, result, panicked, solveVars, searchVars, face>>

\* cube.turn(f, direction) on the cube the caller holds: the index into
\* ROTATION_INDEXES is bounds-checked before anything is written; an expect()
\* of Face::set fails after the cells before it have been written
CallBitTurn ==
    /\ pc = "caller"
    /\ ncalls < MaxCalls
    /\ \E f \in 0..MaxFaceIndex : \E direction \in Direction :
        /\ call' = [op |-> "BitCube::turn", cells |-> {}, args |-> <<f, direction>>]
        /\ IF f \notin DOMAIN ROTATION_INDEXES
           THEN /\ outcome' = "panic"
                /\ faces' = faces
           ELSE IF BitTurnPanics(faces, f, direction)
           THEN /\ outcome' = "panic"
                /\ faces' = BitTurnAborted(faces, f, direction)
           ELSE /\ outcome' = "ok"
                /\ faces' = BitTurn(faces, f, direction)
    /\ ret' = None
    /\ ncalls' = ncalls + 1
    /\ UNCHANGED <<pc, blocks, n, result, panicked, solveVars, searchVars, face>>

NextFace ==
    \/ CallFaceSolved
    \/ CallFaceFrom
    \/ CallFaceGet
    \/ CallFaceSet
    \/ CallGetEdge
    \/ CallSetEdge
    \/ CallRotateMut
    \/ CallBitCubeFrom
    \/ CallBitTurn

FaceSpec == FaceInit /\ [][NextFace]_vars

(* ------------------------------------------------------------------ *)
(* Helpers of the properties                                            *)
(* ------------------------------------------------------------------ *)

\* the other direction
Reverse(direction) == IF direction = Clockwise THEN CounterClockwise ELSE Clockwise

\* turning both cubes: <<blocks, faces>> after the rotation
TurnBoth(cube, rotation) ==
    << turn(cube[1], rotation), BitTurn(cube[2], rotation.face, rotation.direction) >>

\* a sequence of rotations applied in order to a piece cube
RECURSIVE Replay(_, _)
Replay(cube, rotations) ==
    IF rotations = <<>> THEN cube
    ELSE Replay(turn(cube, Head(rotations)), Tail(rotations))

\* the rotation the step from the current state to the next one has applied
Applied == result'[Len(result')]

\* the step is one iteration of scramble
Turned == Len(result') = Len(result) + 1

\* the 12 moves
AllMoves == {Rotation(F, D) : F \in Colors, D \in Direction}

\* every sequence of k moves
MoveSeqs(k) == [1..k -> AllMoves]

\* the scramble undone move by move: the rotations of rs in reverse order, each reversed
RECURSIVE Undo(_)
Undo(rs) ==
    IF rs = <<>> THEN <<>>
    ELSE Append(Undo(Tail(rs)), Rotation(Head(rs).face, Reverse(Head(rs).direction)))

\* the face after F in ALL_COLORS, a neighbour of F, taken for its opposite
Opposite_NextFace(F) == ALL_COLORS[(F + 1) % NUM_COLORS]

\* the face that is neither F nor listed as a neighbour of F
Opposite(F) ==
    CHOOSE c \in Colors : c # F /\ \A i \in 0..(NUM_NEIGHBORS - 1) : ADJACENT_COLORS[F][i] # c

\* the piece grid with every colour idx replaced by its cell code idx + 1
Codes(grid) == [r \in 0..(SIDE_LEN - 1) |-> [c \in 0..(SIDE_LEN - 1) |-> grid[r][c] + 1]]

\* the number of cells of the bit-packed cube holding code
CellCount(fs, code) ==
    Cardinality({cell \in (0..5) \X (0..8) : FaceGet(fs[cell[1]], cell[2]) = code})

(* ------------------------------------------------------------------ *)
(* Properties                                                           *)
(* ------------------------------------------------------------------ *)

\* C1: after every sequence of moves applied from solved to both cubes, the
\* 3x3 grid RubiksCube::get_face builds for each of the 6 faces exists and
\* equals, cell for cell, the grid of the bit-packed face read in row-major
\* order through ROW_MAJOR_TO_INTERNAL (cell code = colour idx + 1).
C1_CrossRepresentation ==
    ~panicked =>
        \A f \in Colors :
            /\ get_face(blocks, f) # None
            /\ Codes(get_face(blocks, f)[1]) = pretty_fmt(faces[f])

\* a scramble of two moves or more has left an unsolved cube whose grids agree
C1_Witness ==
    /\ Len(result) >= 2
    /\ ~is_solved(blocks)
    /\ \A f \in Colors : Codes(get_face(blocks, f)[1]) = pretty_fmt(faces[f])
    /\ pretty_fmt(faces[WHITE]) # pretty_fmt(BitCubeSolved[WHITE])

\* C2: whenever a turn (F, D) is applied to a reachable state, turning F in
\* the other direction next gives back exactly the state before the turn:
\* every block of the piece cube and every packed face word.  D ranges over
\* both directions, so this is CW then CCW and CCW then CW.
C2_DirectionInverse ==
    [][ Turned =>
          TurnBoth(<<blocks', faces'>>, Rotation(Applied.face, Reverse(Applied.direction)))
              = <<blocks, faces>> ]_vars

\* a counterclockwise turn has been applied to an unsolved cube
C2_Witness ==
    /\ Len(result) >= 2
    /\ result[Len(result)].direction = CounterClockwise
    /\ result[1].face # result[2].face
    /\ TurnBoth(<<blocks, faces>>, Rotation(result[Len(result)].face, Clockwise))
           # <<blocks, faces>>

\* C3: whenever a turn (F, D) is applied to a reachable state, applying the
\* same turn three more times gives back exactly the state before the
\* first of the four, in both cubes.
C3_FourQuarterTurns ==
    [][ Turned =>
          TurnBoth(TurnBoth(TurnBoth(<<blocks', faces'>>, Applied), Applied), Applied)
              = <<blocks, faces>> ]_vars

\* a turn has been applied to an unsolved cube and two more of it do not restore it
C3_Witness ==
    /\ Len(result) >= 2
    /\ result[1].face # result[2].face
    /\ TurnBoth(TurnBoth(<<blocks, faces>>, result[Len(result)]), result[Len(result)])
           # Replay(RubiksCubeSolved, <<result[1]>>)
    /\ ~is_solved(blocks)
    /\ faces # BitCubeSolved

C5_SolverMinimal ==
    pc = "done" =>
        /\ Len(returned) <= n
        /\ \A k \in 0..(Len(returned) - 1) :
              \A seq \in MoveSeqs(k) : ~is_solved(Replay(blocks, seq))

\* solve has returned a two-move solution other than the scramble undone, and
\* no single move solves the cube
C5_Witness ==
    /\ pc = "done"
    /\ Len(result) = 2
    /\ Len(returned) = 2
    /\ returned # Undo(result)
    /\ is_solved(Replay(blocks, returned))
    /\ \A seq \in MoveSeqs(1) : ~is_solved(Replay(blocks, seq))

\* C6: in every reachable state of the bit-packed cube each colour code 1..6
\* is held by exactly 9 of the 54 cells.
C6_Conservation ==
    ~panicked => \A code \in 1..6 : CellCount(faces, code) = 9

\* a scrambled bit-packed cube: the White face holds three colours or more
C6_Witness ==
    /\ Len(result) >= 2
    /\ Cardinality({FaceGet(faces[WHITE], i) : i \in 0..8}) >= 3
    /\ \A code \in 1..6 : CellCount(faces, code) = 9

\* C7: the cube RubiksCube::solved builds is solved, and the cube after any
\* single move from it is not.
C7_SolvedPerturbation ==
    /\ Len(result) = 0 => is_solved(blocks)
    /\ (Len(result) = 1 /\ ~panicked) => ~is_solved(blocks)

\* one move has been applied to the solved cube
C7_Witness ==
    /\ Len(result) = 1
    /\ result[1] = Rotation(YELLOW, CounterClockwise)
    /\ ~is_solved(blocks)

\* C8: when scramble returns, its result holds exactly n rotations and
\* replaying them in order from the cube scramble started from (the solved
\* cube) gives exactly the cube scramble has left.
C8_ScrambleReplay ==
    pc = "scrambled" =>
        /\ Len(result) = n
        /\ Replay(RubiksCubeSolved, result) = blocks

\* scramble has returned three different moves or more
C8_Witness ==
    /\ pc = "scrambled"
    /\ n >= 3
    /\ Len(result) = n
    /\ result[1] # result[2]
    /\ result[2] # result[3]
    /\ Replay(RubiksCubeSolved, result) = blocks

\* C9: for every face F and direction D the mapping of get_color_rotations
\* has an entry for each of the 6 faces, maps F to Some(F), maps the face
\* opposite F to None, and maps each neighbour to the next one of
\* ADJACENT_COLORS[F] (Clockwise, the last to the first) or to the previous
\* one (CounterClockwise, the first to the last).
C9_RotationMapping ==
    \A F \in Colors : \A D \in Direction :
        LET m == get_color_rotations(Rotation(F, D))
            adj == ADJACENT_COLORS[F]
        IN  /\ DOMAIN m = Colors
            /\ m[F] = Some(F)
            /\ m[Opposite(F)] = None
            /\ m[Opposite(F)] # m[F]
            /\ \A i \in 0..(NUM_NEIGHBORS - 1) :
                  m[adj[i]] = IF D = Clockwise
                              THEN Some(adj[(i + 1) % NUM_NEIGHBORS])
                              ELSE Some(adj[(i + NUM_NEIGHBORS - 1) % NUM_NEIGHBORS])

\* a counterclockwise turn of Red has used the mapping: Orange stays unmapped,
\* White goes to Green
C9_Witness ==
    /\ Len(result) >= 1
    /\ result[Len(result)] = Rotation(RED, CounterClockwise)
    /\ get_color_rotations(result[Len(result)])[ORANGE] = None
    /\ get_color_rotations(result[Len(result)])[WHITE] = Some(GREEN)
    /\ blocks = turn(Replay(RubiksCubeSolved, SubSeq(result, 1, Len(result) - 1)),
                     result[Len(result)])

\* C10: every entry point of the bit model handed a cell value outside 1..6
\* ends in an error or a panic, and no face the caller gets (one built by
\* Face::solved, Face::from or Face::set, or one of a cube built by
\* BitCube::from) holds a cell outside 1..6.
C10_CellValidation ==
    /\ (call.cells \ (1..6) # {}) => outcome \in {"err", "panic"}
    /\ face # None => Cells(face[1]) \subseteq 1..6
    /\ \A f \in 0..5 : Cells(faces[f]) \subseteq 1..6

\* C11: every call of Face::get or Face::set with a cell index above 8, and
\* every call of BitCube::turn with a face index above 5, ends in a panic and
\* leaves the face word and the six words of the cube as they were: nothing
\* is read or written outside the 27 bits of the nine cells.
C11_IndexAborts ==
    [][ LET op == call'.op
            OutOfRange ==
                \/ op \in {"Face::get", "Face::set"} /\ call'.args[1] > 8
                \/ op = "BitCube::turn" /\ call'.args[1] > 5
        IN  OutOfRange => (outcome' = "panic" /\ face' = face /\ faces' = faces) ]_vars

\* C12: after face.set_edge(v, ordinal), for a strip v of three valid cells,
\* face.get_edge(ordinal, false) is v; and for every face a caller holds and
\* every ordinal, writing back the strip get_edge(ordinal, false) has read
\* leaves the word as it is.  Reading and writing address the same three
\* cells in the same order.
C12_StripRoundTrip ==
    /\ (call.op = "Face::set_edge" /\ outcome = "ok") =>
           get_edge(face[1], call.args[2], FALSE) = call.args[1]
    /\ face # None =>
           \A ordinal \in Ordinal :
               set_edge(face[1], get_edge(face[1], ordinal, FALSE), ordinal) = face[1]

\* C13: the face Face::from builds from nine valid values given in row-major
\* order shows values[r] at row-major position r, for every r in 0..8:
\* Face::get(ROW_MAJOR_TO_INTERNAL[r]) = values[r].
C13_RowMajorRoundTrip ==
    (call.op = "Face::from" /\ outcome = "ok") =>
        \A r \in 0..8 : FaceGet(face[1], ROW_MAJOR_TO_INTERNAL[r]) = call.args[1][r]

\* the cube the last turn of the scramble was applied to
BeforeLast == Replay(RubiksCubeSolved, SubSeq(result, 1, Len(result) - 1))

\* C14: a turn (F, D) of the piece cube changes the paint colour of no
\* facelet, keeps the kind and the number of facelets of the piece at every
\* index of the 20, and leaves every piece with no facelet on F exactly as it
\* was; those pieces are 12 of the 20.
C14_PieceFrame ==
    [][ Turned =>
          LET F == Applied.face
          IN  /\ DOMAIN blocks' = DOMAIN blocks
              /\ Len(blocks') = 20
              /\ \A k \in DOMAIN blocks :
                    /\ blocks'[k].kind = blocks[k].kind
                    /\ DOMAIN blocks'[k].fs = DOMAIN blocks[k].fs
                    /\ \A j \in DOMAIN blocks[k].fs :
                           blocks'[k].fs[j].color = blocks[k].fs[j].color
                    /\ ~OnFace(blocks[k], F) => blocks'[k] = blocks[k]
              /\ Cardinality({k \in DOMAIN blocks : ~OnFace(blocks[k], F)}) = 12 ]_vars

\* the last turn has moved pieces of its face and has left in place a piece
\* that an earlier turn had moved
C14_Witness ==
    /\ Len(result) >= 2
    /\ blocks = turn(BeforeLast, result[Len(result)])
    /\ \E k \in DOMAIN blocks :
          /\ ~OnFace(BeforeLast[k], result[Len(result)].face)
          /\ ~BlockIsSolved(BeforeLast[k])
          /\ blocks[k] = BeforeLast[k]
    /\ \E k \in DOMAIN blocks :
          /\ OnFace(BeforeLast[k], result[Len(result)].face)
          /\ blocks[k] # BeforeLast[k]
          /\ \A j \in DOMAIN blocks[k].fs : blocks[k].fs[j].color = BeforeLast[k].fs[j].color

\* two faces listed as neighbours of one another
Adjacent(a, b) == \E i \in 0..(NUM_NEIGHBORS - 1) : ADJACENT_COLORS[a][i] = b

\* the pairs of adjacent faces, and the triples of mutually adjacent faces
EdgePositions == {p \in SUBSET Colors : \E a \in p : \E b \in p : Adjacent(a, b) /\ p = {a, b}}
CornerPositions ==
    {p \in SUBSET Colors :
        /\ Cardinality(p) = 3
        /\ \A a \in p : \A b \in p \ {a} : Adjacent(a, b)}

\* the current faces of the facelets of a piece
Position(block) == {block.fs[j].face : j \in DOMAIN block.fs}

\* every piece of the cube as (index, kind, current faces)
Placed(bs) == {<<k, bs[k].kind, Position(bs[k])>> : k \in DOMAIN bs}

\* the pieces of a kind whose current faces are exactly p
Occupants(placed, kind, p) == {t[1] : t \in {u \in placed : u[2] = kind /\ u[3] = p}}

\* the pieces a scan of find_edge / find_corner for colors matches: those of
\* the kind with every requested colour among their current faces
Matching(placed, kind, colors) ==
    {t[1] : t \in {u \in placed :
                     u[2] = kind /\ \A c \in DOMAIN colors : colors[c] \in u[3]}}

\* C16: in every state reached from the solved cube the 12 edges occupy the
\* 12 pairs of adjacent faces and the 8 corners the 8 triples of mutually
\* adjacent faces, one piece each; so every scan of find_edge and find_corner
\* that get_face makes matches exactly one piece, get_face is never None, no
\* piece lies on a face and on the face opposite to it, and no unwrap of a
\* turn fails, whichever turn comes next.
C16_PositionBijection ==
    LET placed == Placed(blocks)
    IN  /\ ~panicked
        /\ Cardinality(EdgePositions) = 12
        /\ Cardinality(CornerPositions) = 8
        /\ \A p \in EdgePositions : Cardinality(Occupants(placed, "Edge", p)) = 1
        /\ \A p \in CornerPositions : Cardinality(Occupants(placed, "Corner", p)) = 1
        /\ \A t \in placed :
              t[3] \in (IF t[2] = "Edge" THEN EdgePositions ELSE CornerPositions)
        /\ \A f \in Colors :
              /\ get_face(blocks, f) # None
              /\ \A i \in 0..(NUM_NEIGHBORS - 1) :
                    LET neighbors == ADJACENT_COLORS[f]
                    IN  /\ Cardinality(Matching(placed, "Edge", <<f, neighbors[i]>>)) = 1
                        /\ Cardinality(Matching(placed, "Corner",
                               <<f, neighbors[i], neighbors[(i + 1) % NUM_NEIGHBORS]>>)) = 1
        /\ \A k \in DOMAIN blocks : \A j \in DOMAIN blocks[k].fs :
              ~OnFace(blocks[k], Opposite(blocks[k].fs[j].face))
        /\ \A r \in AllMoves : ~TurnPanics(blocks, r)

\* a scramble has taken an edge and a corner away from the places they were built in
C16_Witness ==
    /\ Len(result) >= 2
    /\ result[1].face # result[2].face
    /\ \E k \in DOMAIN blocks :
          /\ blocks[k].kind = "Edge"
          /\ Position(blocks[k]) # Position(RubiksCubeSolved[k])
          /\ Occupants(Placed(blocks), "Edge", Position(blocks[k])) = {k}
    /\ \E k \in DOMAIN blocks :
          /\ blocks[k].kind = "Corner"
          /\ Position(blocks[k]) # Position(RubiksCubeSolved[k])
          /\ Occupants(Placed(blocks), "Corner", Position(blocks[k])) = {k}
    /\ \A f \in Colors : get_face(blocks, f) # None

\* the face of the bit-packed cube that is neither F nor in ROTATION_INDEXES[F]
BitOpposite(F) ==
    CHOOSE f \in DOMAIN ROTATION_INDEXES :
        f # F /\ \A i \in 0..3 : ROTATION_INDEXES[F][i][1] # f

\* the 12 cells (face, cell index) of the strips of ROTATION_INDEXES[F]
StripCells(F) ==
    {<<ROTATION_INDEXES[F][i][1], ROTATION_INDEXES[F][i][2][j]>> : i \in 0..3, j \in 0..2}

\* the strip cells of F with the value each holds in the cube fs
StripValues(fs, F) == {<<cell, FaceGet(fs[cell[1]], cell[2])>> : cell \in StripCells(F)}

\* the number of strip cells holding code, among strip cells paired with their values
StripCount(values, code) == Cardinality({v \in values : v[2] = code})

\* the unused bits 27..31 of a face word
UnusedBits(values) == BitAnd(values, Shl(U(31), 27))

\* the number of cells holding code among the strips of idx, a row of
\* ROTATION_INDEXES, in the cube fs
StripCountIn(fs, idx, code) ==
    Cardinality({ij \in (0..3) \X (0..2) :
                    FaceGet(fs[idx[ij[1]][1]], idx[ij[1]][2][ij[2]]) = code})

\* C18: a turn (F, D) of the bit-packed cube leaves the word of the face
\* opposite F as it was and the centre cell of all six faces as it was; on
\* each of the four neighbours only the three cells listed for it in
\* ROTATION_INDEXES[F] may change; and the 12 strip cells after the turn hold
\* the same values, each as many times, as the 12 strip cells before it.
C18_BitFrame ==
    [][ Turned =>
          \A F \in {Applied.face} : \A idx \in {ROTATION_INDEXES[F]} :
              /\ faces'[BitOpposite(F)] = faces[BitOpposite(F)]
              /\ \A f \in 0..5 : FaceGet(faces'[f], 8) = FaceGet(faces[f], 8)
              /\ \A i \in 0..3 :
                    LET f == idx[i][1]
                        listed == {idx[i][2][j] : j \in 0..2}
                    IN  /\ \A c \in (0..8) \ listed :
                              FaceGet(faces'[f], c) = FaceGet(faces[f], c)
                        /\ UnusedBits(faces'[f]) = UnusedBits(faces[f])
              /\ Cardinality(StripCells(F)) = 12
              /\ \A code \in 0..7 :
                    StripCountIn(faces', idx, code) = StripCountIn(faces, idx, code) ]_vars

\* a turn has been applied to a cube whose opposite face was already
\* scrambled, and it has changed the strips
C18_Witness ==
    /\ Len(result) >= 2
    /\ LET F == result[Len(result)].face
           before == BitTurn(faces, F, Reverse(result[Len(result)].direction))
       IN  /\ faces[BitOpposite(F)] # BitCubeSolved[BitOpposite(F)]
           /\ faces[BitOpposite(F)] = before[BitOpposite(F)]
           /\ StripValues(faces, F) # StripValues(before, F)
           /\ \A code \in 1..6 :
                 StripCount(StripValues(faces, F), code)
                     = StripCount(StripValues(before, F), code)

\* C19: in every state of the bit-packed cube reached from BitCube::solved by
\* turns, each of the 54 cells holds a value of 1..6, the centre cell of face
\* f holds f + 1, and bits 27..31 of each of the six words are zero.
C19_BitWellFormed ==
    /\ ~panicked
    /\ \A f \in 0..5 :
          /\ \A c \in 0..8 : FaceGet(faces[f], c) \in 1..6
          /\ FaceGet(faces[f], 8) = f + 1
          /\ UnusedBits(faces[f]) = {}

\* three turns have left a face showing four values or more, all of them valid
C19_Witness ==
    /\ Len(result) >= 3
    /\ \E f \in 0..5 :
          /\ Cardinality(Cells(faces[f])) >= 4
          /\ Cells(faces[f]) \subseteq 1..6
          /\ FaceGet(faces[f], 8) = f + 1
          /\ faces[f] \subseteq 0..26

\* two mappings of get_color_rotations one after the other
Compose(first, second) ==
    [c \in Colors |-> IF first[c] = None THEN None ELSE second[first[c][1]]]

\* the mappings of the two functions, for every face and direction
CurrentMappings ==
    [F \in Colors |-> [D \in Direction |-> get_color_rotations(Rotation(F, D))]]
MainMappings ==
    [F \in Colors |-> [D \in Direction |-> MainGetColorRotations(F, D)]]

\* F and its four neighbours
Ring(F) == {F} \cup {ADJACENT_COLORS[F][i] : i \in 0..(NUM_NEIGHBORS - 1)}

\* C20: for every face F the mapping of (F, Clockwise) followed by the one of
\* (F, CounterClockwise), and the other way round, takes F and each of its
\* four neighbours back to itself, with get_color_rotations of rubiks_cube.rs
\* and with the one of main.rs; and the two functions return the same
\* mapping for every (F, D).
C20_MappingInverse ==
    \A F \in Colors :
        LET cur(D) == CurrentMappings[F][D]
            old(D) == MainMappings[F][D]
        IN  /\ \A c \in Ring(F) :
                  /\ Compose(cur(Clockwise), cur(CounterClockwise))[c] = Some(c)
                  /\ Compose(cur(CounterClockwise), cur(Clockwise))[c] = Some(c)
                  /\ Compose(old(Clockwise), old(CounterClockwise))[c] = Some(c)
                  /\ Compose(old(CounterClockwise), old(Clockwise))[c] = Some(c)
            /\ \A D \in Direction : old(D) = cur(D)

\* a counterclockwise turn of Blue has used the mapping, which takes White to
\* Red in both programs and is not its own inverse
C20_Witness ==
    /\ Len(result) >= 1
    /\ result[Len(result)] = Rotation(BLUE, CounterClockwise)
    /\ get_color_rotations(result[Len(result)])[WHITE] = Some(RED)
    /\ MainGetColorRotations(BLUE, CounterClockwise)[WHITE] = Some(RED)
    /\ MainGetColorRotations(BLUE, Clockwise)[RED] = Some(WHITE)
    /\ MainGetColorRotations(BLUE, Clockwise)[WHITE] # Some(RED)

\* rotate_mut applied k times in the same direction
RECURSIVE RotateTimes(_, _, _)
RotateTimes(values, direction, k) ==
    IF k = 0 THEN values
    ELSE RotateTimes(rotate_mut(values, direction), direction, k - 1)

\* C17: for every face whose nine cells are valid, rotate_mut(Clockwise)
\* moves ring cell k to ring cell (k + 2) mod 8 and rotate_mut(CounterClockwise)
\* moves it to (k - 2) mod 8, for k in 0..7, keeps the centre cell and leaves
\* bits 27..31 zero; four rotations in the same direction give back the
\* 32-bit word the face had.
C17_RingRotation ==
    (face # None /\ Cells(face[1]) \subseteq 1..6) =>
        \A direction \in Direction :
            LET rotated == rotate_mut(face[1], direction)
                to(k) == IF direction = Clockwise THEN (k + 2) % 8 ELSE (k + 8 - 2) % 8
            IN  /\ \A k \in 0..7 : FaceGet(rotated, to(k)) = FaceGet(face[1], k)
                /\ FaceGet(rotated, 8) = FaceGet(face[1], 8)
                /\ UnusedBits(rotated) = {}
                /\ RotateTimes(face[1], direction, 4) = face[1]

\* the cubes solve holds: the dequeued one and those of the queue
Held == (IF dequeued = None THEN {} ELSE {dequeued[1].cube})
            \cup {frontier[q].cube : q \in DOMAIN frontier}

\* C15: no step of solve changes the cube solve was called on, and no step
\* changes the blocks of a cube that is alive before and after it: the clone a
\* move is applied to is a new allocation, so the dequeued parent and every
\* cube of the queue keep their blocks.
C15_CloneIndependence ==
    [][ /\ pc \in {"scrambled", "while", "for"} => blocks' = blocks
        /\ SelfRef \in DOMAIN heap' => heap'[SelfRef] = blocks
        /\ \A id \in DOMAIN heap \cap DOMAIN heap' : heap'[id] = heap[id]
        /\ pc = "for" =>
              \A id \in Held : id \in DOMAIN heap' => heap'[id] = heap[id] ]_vars

\* solve is in the for loop of a cube one move away from the cube it was
\* called on: the clones made so far sit in the queue, each in an allocation
\* of its own with blocks other than the parent's
C15_Witness ==
    /\ pc = "for"
    /\ rot > NUM_COLORS
    /\ ~is_solved(blocks)
    /\ heap[SelfRef] = blocks
    /\ Len(dequeued[1].acc) = 1
    /\ Len(frontier) > NUM_COLORS
    /\ Cardinality(Held) = Len(frontier) + 1
    /\ heap[frontier[Len(frontier)].cube] # heap[dequeued[1].cube]
    /\ heap[frontier[Len(frontier)].cube]
           = turn(heap[dequeued[1].cube], all_rotations[rot - 1])

\* the lengths of the rotation sequences of the queue, front to back
FrontierLens == [k \in DOMAIN frontier |-> Len(frontier[k].acc)]

\* a sequence of numbers that never decreases
NonDecreasing(lens) == \A i \in DOMAIN lens : \A j \in DOMAIN lens : i < j => lens[i] <= lens[j]

\* C21: during RubiksCube::solve the rotation sequences are removed from the
\* queue in non-decreasing length, and at every moment the lengths of the
\* sequences in the queue are non-decreasing from front to back, the back one
\* being at most 1 longer than the front one.
C21_BreadthFirstOrder ==
    /\ NonDecreasing(removed)
    /\ NonDecreasing(FrontierLens)
    /\ frontier # <<>> => FrontierLens[Len(frontier)] - FrontierLens[1] <= 1

\* sequences of length 0 and then 1 have been removed, and the queue holds
\* sequences of length 1 in front of sequences of length 2
C21_Witness ==
    /\ Len(removed) >= 2
    /\ removed[1] < removed[Len(removed)]
    /\ Len(frontier) >= 2
    /\ FrontierLens[1] = 1
    /\ FrontierLens[Len(frontier)] = 2

\* the pair holds the cube solve was called on with the rotations of the pair applied in order
Consistent(pair) == heap[pair.cube] = Replay(blocks, pair.acc)

\* C22: every pair (state, sequence) held in the queue of solve, and the pair
\* being expanded, has for state the input cube with the sequence applied in
\* order; the expansion of a removed unsolved pair adds one pair per rotation
\* of the fixed order (face 0..5, Clockwise before CounterClockwise), each the
\* sequence of the removed pair with that rotation appended, 12 in all, so the
\* queue holds every pair added and not yet removed, no state being left out.
C22_FrontierConsistency ==
    /\ \A f \in Colors :
          /\ all_rotations[2 * f + 1] = Rotation(f, Clockwise)
          /\ all_rotations[2 * f + 2] = Rotation(f, CounterClockwise)
    /\ Len(all_rotations) = 12
    /\ \A k \in DOMAIN frontier : Consistent(frontier[k])
    /\ dequeued # None => Consistent(dequeued[1])
    /\ pc = "for" =>
          /\ rot \in 1..13
          /\ Len(frontier) + Len(removed) = 1 + 12 * (Len(removed) - 1) + (rot - 1)
          /\ \A j \in 1..(rot - 1) :
                frontier[Len(frontier) - (rot - 1) + j].acc
                    = Append(dequeued[1].acc, all_rotations[j])
    /\ (pc = "while" /\ ~is_solved(blocks)) =>
          Len(frontier) + Len(removed) = 1 + 12 * Len(removed)

\* an expansion has added its 12 pairs, among them one of two rotations whose
\* state is the input cube again, a state the search has already seen
C22_Witness ==
    /\ pc = "for"
    /\ rot = 13
    /\ Len(removed) >= 2
    /\ \E k \in DOMAIN frontier :
          /\ Len(frontier[k].acc) = 2
          /\ heap[frontier[k].cube] = blocks
          /\ Consistent(frontier[k])

\* C23: when solve is called on an unsolved cube the queue is non-empty every
\* time the condition of the while loop is evaluated, so the return after the
\* loop is not taken; and whenever solve has returned, the sequence returned
\* is empty if and only if the cube it was called on was already solved.
C23_EmptyMeansSolved ==
    /\ (pc = "while" /\ ~is_solved(blocks)) => Len(frontier) # 0
    /\ pc = "done" => (returned = <<>> <=> is_solved(blocks))
    /\ (pc = "done" /\ ~is_solved(blocks)) =>
          (removed # <<>> /\ Len(returned) = removed[Len(removed)])

\* solve has returned a non-empty sequence for an unsolved cube after the
\* loop condition was evaluated several times
C23_Witness ==
    /\ pc = "done"
    /\ ~is_solved(blocks)
    /\ returned # <<>>
    /\ iters >= 2

\* 1 + 12 + ... + 12^m
RECURSIVE MaxDequeues(_)
MaxDequeues(m) == IF m = 0 THEN 1 ELSE 12 * MaxDequeues(m - 1) + 1

\* C24 as stated: whenever solve has returned for a cube n moves away from
\* solved, it did so on removing a pair from the queue, a pair whose sequence
\* has length at most n, after at most 1 + 12 + ... + 12^n removals.
C24_ReturnsOnDequeue ==
    pc = "done" =>
        /\ removed # <<>>
        /\ Len(returned) = removed[Len(removed)]
        /\ removed[Len(removed)] <= n
        /\ Len(removed) <= MaxDequeues(n)

\* C24: for every cube obtained from the solved cube by n moves, solve
\* eventually returns.  Called on an unsolved cube it returns on removing a
\* pair whose sequence has length at most n, after at most 1 + 12 + ... + 12^n
\* removals; called on a solved cube it returns the empty sequence after the
\* loop, without having removed any pair.
C24_Termination ==
    /\ [](pc = "done" =>
            IF is_solved(blocks)
            THEN removed = <<>> /\ returned = <<>>
            ELSE /\ removed # <<>>
                 /\ Len(returned) = removed[Len(removed)]
                 /\ removed[Len(removed)] <= n
                 /\ Len(removed) <= MaxDequeues(n))
    /\ (pc = "scrambled" /\ n <= MaxSearchMoves) ~> (pc = "done")

\* solve has returned for a cube one move away from solved on its last
\* removal allowed, the thirteenth
C24_Witness ==
    /\ pc = "done"
    /\ n = 1
    /\ ~is_solved(blocks)
    /\ Len(removed) = MaxDequeues(n)
    /\ Len(returned) = n

\* the faces a lists as its neighbours
Listed(a) == {ADJACENT_COLORS[a][i] : i \in 0..(NUM_NEIGHBORS - 1)}

\* the other faces whose list does not hold a
Unlisted(a) == {b \in Colors \ {a} : a \notin Listed(b)}

\* the list of b is the cycle of the list of a traversed the other way
\* round: what follows a face in the list of b precedes it in the list of a
ReverseCycle(a, b) ==
    \A i \in 0..(NUM_NEIGHBORS - 1) :
        \E j \in 0..(NUM_NEIGHBORS - 1) :
            /\ ADJACENT_COLORS[b][j] = ADJACENT_COLORS[a][i]
            /\ ADJACENT_COLORS[b][(j + 1) % NUM_NEIGHBORS]
                   = ADJACENT_COLORS[a][(i + NUM_NEIGHBORS - 1) % NUM_NEIGHBORS]

\* the faces the facelets of the cube are on
CubeFaces == UNION {Position(blocks[k]) : k \in DOMAIN blocks}

\* C25: in ADJACENT_COLORS every face of the cube lists 4 distinct faces, none of them
\* itself; a lists b if and only if b lists a; each face is missing from the
\* list of exactly one other face, its opposite (White-Yellow, Red-Orange,
\* Blue-Green), and the list of the opposite is the same cycle traversed in
\* the reverse direction.
C25_AdjacencyTopology ==
    /\ DOMAIN ADJACENT_COLORS = Colors
    /\ CubeFaces = Colors
    /\ \A a \in CubeFaces :
          /\ Listed(a) \subseteq Colors
          /\ Cardinality(Listed(a)) = 4
          /\ a \notin Listed(a)
          /\ \A b \in Colors : b \in Listed(a) <=> a \in Listed(b)
          /\ Cardinality(Unlisted(a)) = 1
          /\ \A b \in Unlisted(a) : ReverseCycle(a, b)
    /\ Unlisted(WHITE) = {YELLOW} /\ Unlisted(YELLOW) = {WHITE}
    /\ Unlisted(RED) = {ORANGE} /\ Unlisted(ORANGE) = {RED}
    /\ Unlisted(BLUE) = {GREEN} /\ Unlisted(GREEN) = {BLUE}

\* the table has driven a turn of a face and then a turn of the face missing
\* from its list, and both have moved pieces
C25_Witness ==
    /\ Len(result) = 2
    /\ result[2].face \in Unlisted(result[1].face)
    /\ ReverseCycle(result[1].face, result[2].face)
    /\ \E k \in DOMAIN blocks : OnFace(blocks[k], result[1].face) /\ ~BlockIsSolved(blocks[k])
    /\ \E k \in DOMAIN blocks : OnFace(blocks[k], result[2].face) /\ ~BlockIsSolved(blocks[k])

\* the draws Rotation::random decodes to the rotation, and Move::random to the move
RotationDraws(rotation) == {i \in RngDraws : RotationRandom(i) = rotation}
MoveDraws(move) == {i \in RngDraws : MoveRandom(i) = move}

\* C26: Rotation::random and Move::random map the 12 draws 0..11 one-to-one
\* onto the 12 moves: draw i gives face i / 2, a face index of 0..5, Clockwise
\* when i is even and CounterClockwise when it is odd, and every pair (face,
\* direction) comes from exactly one draw; so does the rotation each iteration
\* of scramble applies.
C26_DrawBijection ==
    [][ Turned =>
          /\ RngDraws = 0..11
          /\ \A i \in RngDraws :
                /\ RotationRandom(i).face = ALL_COLORS[i \div 2]
                /\ RotationRandom(i).face \in 0..5
                /\ MoveRandom(i).face = i \div 2
                /\ MoveRandom(i).face \in 0..5
                /\ RotationRandom(i).direction
                       = IF i % 2 = 0 THEN Clockwise ELSE CounterClockwise
                /\ MoveRandom(i).direction = RotationRandom(i).direction
          /\ \A F \in Colors : \A D \in Direction :
                /\ Cardinality(RotationDraws(Rotation(ALL_COLORS[F], D))) = 1
                /\ Cardinality(MoveDraws(Move(F, D))) = 1
          /\ Cardinality({RotationRandom(i) : i \in RngDraws}) = 12
          /\ Cardinality({MoveRandom(i) : i \in RngDraws}) = 12
          /\ Cardinality(RotationDraws(Applied)) = 1
          /\ \A i \in RotationDraws(Applied) :
                /\ blocks' = turn(blocks, RotationRandom(i))
                /\ faces' = BitTurn(faces, MoveRandom(i).face, MoveRandom(i).direction) ]_vars

\* scramble has applied the rotations of the first draw, the last draw and a
\* draw in between, of both directions
C26_Witness ==
    /\ Len(result) = 3
    /\ result[1] = RotationRandom(0)
    /\ result[2] = RotationRandom(11)
    /\ result[3] = RotationRandom(5)
    /\ RotationDraws(result[3]) = {5}
    /\ MoveDraws(Move(2, CounterClockwise)) = {5}

\* both cubes after the rotation first and then the rotation second
TurnTwo(cube, first, second) == TurnBoth(TurnBoth(cube, first), second)

\* C27: turns of opposite faces commute.  For each pair of opposite faces
\* (White/Yellow, Red/Orange, Blue/Green: face indexes 0/5, 1/3, 2/4), every
\* choice of the two directions and every state reached from solved, turning
\* F by D1 and then the opposite face by D2 gives exactly the state that the
\* two turns give in the other order, in RubiksCube and in BitCube.
C27_OppositeCommute ==
    /\ Opposite(WHITE) = YELLOW /\ Opposite(RED) = ORANGE /\ Opposite(BLUE) = GREEN
    /\ \A F \in {WHITE, RED, BLUE} : BitOpposite(F) = Opposite(F)
    /\ \A F \in {WHITE, RED, BLUE} : \A D1 \in Direction : \A D2 \in Direction :
          LET first == Rotation(F, D1)
              second == Rotation(Opposite(F), D2)
          IN  TurnTwo(<<blocks, faces>>, first, second)
                  = TurnTwo(<<blocks, faces>>, second, first)

\* a scrambled cube whose last two turns were of opposite faces, where undoing
\* them in the order they were made gives the cube of before, and where the
\* first two turns, of adjacent faces, do not commute
C27_Witness ==
    /\ Len(result) = 3
    /\ result[3].face = Opposite(result[2].face)
    /\ result[2].face \in Listed(result[1].face)
    /\ LET undo2 == Rotation(result[2].face, Reverse(result[2].direction))
           undo3 == Rotation(result[3].face, Reverse(result[3].direction))
       IN  /\ TurnTwo(<<blocks, faces>>, undo2, undo3)
                 = TurnBoth(<<RubiksCubeSolved, BitCubeSolved>>, result[1])
           /\ TurnTwo(<<RubiksCubeSolved, BitCubeSolved>>, result[1], result[2])
                 # TurnTwo(<<RubiksCubeSolved, BitCubeSolved>>, result[2], result[1])

====
